---- MODULE Spec2Model ----
(***************************************************************************)
(* The manila-plugin interface: the principal end (requires.py,            *)
(* ManilaPluginRequires, UNIT scope: one conversation per remote plugin    *)
(* unit) and the subordinate end (provides.py, ManilaPluginProvides,       *)
(* GLOBAL scope: one conversation).                                        *)
(*                                                                         *)
(* Topology: one principal with the conversations 1..NumSessions, and one  *)
(* plugin unit, the remote unit of the principal's conversation 1.  The    *)
(* remote units of the other conversations publish nothing.                *)
(***************************************************************************)
EXTENDS Naturals, Sequences, FiniteSets, TLC

VARIABLES
    convs,      \* principal: conversations(), the scopes in the order they joined
    pstates,    \* principal: per conversation, the reactive states that are set
    plocal,     \* principal: per conversation, get_local('_authentication_data')
    premote,    \* principal: per conversation, the published '_authentication_data'
    qconvs,     \* plugin: conversations(), empty or the one GLOBAL conversation
    qstates,    \* plugin: the reactive states that are set
    qlocal,     \* plugin: get_local of '_name' and '_configuration_data'
    qremote,    \* plugin: the published '_name' and '_configuration_data'
    packed,     \* principal: per conversation, the peer data last acknowledged
                \* (seen by the last clear_changed that cleared the changed state)
    qacked,     \* plugin: the peer data last acknowledged
    call,       \* the latest handler or accessor call, its argument and its outcome
    log         \* the transport writes (set_local, set_remote) of the latest call

vars == <<convs, pstates, plocal, premote, qconvs, qstates, qlocal, qremote,
          packed, qacked, call, log>>

----------------------------------------------------------------------------
(* Bounds *)

NumSessions == 2

Sessions == 1 .. NumSessions

\* The scope of the plugin's only conversation (reactive.scopes.GLOBAL).
GLOBAL == 0

----------------------------------------------------------------------------
(* Python values, tagged by type.  Equality of the tagged values is        *)
(* Python's ==: a list never equals a tuple, a dict equals a dict with the *)
(* same keys and equal values whatever the insertion order.                *)

None == [t |-> "None"]
Str(s) == [t |-> "str", s |-> s]
Bool(b) == [t |-> "bool", b |-> b]
List(items) == [t |-> "list", items |-> items]
Tuple(items) == [t |-> "tuple", items |-> items]
Dict(d) == [t |-> "dict", d |-> d]
\* A str that holds serialized JSON, kept as the document it spells.
Text(doc) == [t |-> "str", json |-> doc]
\* An exception leaving the call.
Raise(exc) == [t |-> "raise", exc |-> exc]

IsRaise(v) == v.t = "raise"

(* json.dumps: None -> null, str -> string, bool -> true/false, list and   *)
(* tuple -> array, dict -> object.                                         *)
RECURSIVE Encode(_)
Encode(v) ==
    CASE v.t = "None" -> [j |-> "null"]
      [] v.t = "str" -> [j |-> "string", s |-> v.s]
      [] v.t = "bool" -> [j |-> "bool", b |-> v.b]
      [] v.t \in {"list", "tuple"} ->
            [j |-> "array", items |-> [i \in DOMAIN v.items |-> Encode(v.items[i])]]
      [] v.t = "dict" ->
            [j |-> "object", members |-> [k \in DOMAIN v.d |-> Encode(v.d[k])]]

dumps(v) == Text(Encode(v))

(* json.loads: null -> None, string -> str, array -> list, object -> dict. *)
RECURSIVE Decode(_)
Decode(doc) ==
    CASE doc.j = "null" -> None
      [] doc.j = "string" -> Str(doc.s)
      [] doc.j = "bool" -> Bool(doc.b)
      [] doc.j = "array" ->
            List([i \in DOMAIN doc.items |-> Decode(doc.items[i])])
      [] doc.j = "object" ->
            Dict([k \in DOMAIN doc.members |-> Decode(doc.members[k])])

loads(data) ==
    IF data.t = "str" /\ "json" \in DOMAIN data
    THEN Decode(data.json)
    ELSE Raise("JSONDecodeError")

\* obj[key] on the result of loads.
Subscript(obj, key) ==
    IF IsRaise(obj) THEN obj
    ELSE IF obj.t # "dict" THEN Raise("TypeError")
    ELSE IF key \notin DOMAIN obj.d THEN Raise("KeyError")
    ELSE obj.d[key]

\* json.dumps({"data": value})
Envelope(value) == dumps(Dict([data |-> value]))

\* json.loads(data)["data"]
Unwrap(data) == Subscript(loads(data), "data")

----------------------------------------------------------------------------
(* Reactive states of a conversation *)

CONNECTED == "connected"
AVAILABLE == "available"
CHANGED == "changed"
States == {CONNECTED, AVAILABLE, CHANGED}

\* The record of a call: the operation, the scope it ran for, its argument,
\* what it returned or raised, and what it found: the states of that scope
\* before it ran or, for a setter, the local cache.
Call(op, scope, arg, ret, was) ==
    [op |-> op, scope |-> scope, arg |-> arg, ret |-> ret, was |-> was]

\* A transport write.
Write(fn, scope, key, value) ==
    [fn |-> fn, scope |-> scope, key |-> key, value |-> value]

\* The conversation list with a scope added on its first join, and removed.
\* Whether the scope s has a conversation.
InConvs(cs, s) == \E i \in DOMAIN cs : cs[i] = s

Join(cs, s) == IF \E i \in DOMAIN cs : cs[i] = s THEN cs ELSE Append(cs, s)
Leave(cs, s) == SelectSeq(cs, LAMBDA c : c # s)

\* The data last acknowledged: nothing yet, or the peer's name and
\* configuration data.
Never == [t |-> "never"]
Seen(name, config) == [t |-> "seen", name |-> name, config |-> config]

\* No transport fault.
NoFault == [at |-> GLOBAL, in |-> "none"]
Fault(s, fn) == [at |-> s, in |-> fn]

set_state(st, state) == st \cup {state}
remove_state(st, state) == st \ {state}

----------------------------------------------------------------------------
(* The principal end: ManilaPluginRequires (requires.py) *)

\* The auto accessors: the remote unit's published fields.  The plugin unit
\* is the remote unit of conversation 1.
Requires_name(s) == IF s = 1 THEN qremote.name ELSE None
Requires_configuration_data(s) == IF s = 1 THEN qremote.config ELSE None

\* Variants of update_status that take states away when the data is absent.
Requires_update_status_Recompute(s, st) ==
    IF Requires_name(s) # None /\ Requires_configuration_data(s) # None
    THEN set_state(set_state(st, AVAILABLE), CHANGED)
    ELSE remove_state(remove_state(st, AVAILABLE), CHANGED)

Requires_update_status_DropChanged(s, st) ==
    IF Requires_name(s) # None /\ Requires_configuration_data(s) # None
    THEN set_state(set_state(st, AVAILABLE), CHANGED)
    ELSE remove_state(st, CHANGED)

\* A variant of update_status that is content with one of the two fields.
Requires_update_status_Either(s, st) ==
    IF Requires_name(s) # None \/ Requires_configuration_data(s) # None
    THEN set_state(set_state(st, AVAILABLE), CHANGED)
    ELSE st

Requires_update_status(s, st) ==
    IF Requires_name(s) # None /\ Requires_configuration_data(s) # None
    THEN set_state(set_state(st, AVAILABLE), CHANGED)
    ELSE st

\* A variant of departed that leaves available set.
Requires_departed_states_KeepsAvailable(st) ==
    remove_state(remove_state(st, CONNECTED), CHANGED)

Requires_departed_states(st) ==
    remove_state(remove_state(remove_state(st, CONNECTED), AVAILABLE), CHANGED)

Requires_clear_changed_states(st) == remove_state(st, CHANGED)

RequiresFrame == UNCHANGED <<plocal, premote, qconvs, qstates, qlocal, qremote, qacked>>

RequiresJoined(s) ==
    /\ pstates' = [pstates EXCEPT
                     ![s] = Requires_update_status(s, set_state(@, CONNECTED))]
    /\ convs' = Join(convs, s)
    /\ call' = Call("requires.joined", s, None, None, pstates[s])
    /\ log' = <<>>
    /\ UNCHANGED packed
    /\ RequiresFrame

\* A variant of changed that does not reconcile the states.
RequiresChanged_NoUpdate(s) ==
    /\ call' = Call("requires.changed", s, None, None, pstates[s])
    /\ log' = <<>>
    /\ UNCHANGED <<pstates, convs, packed>>
    /\ RequiresFrame

RequiresChanged(s) ==
    /\ pstates' = [pstates EXCEPT ![s] = Requires_update_status(s, @)]
    /\ call' = Call("requires.changed", s, None, None, pstates[s])
    /\ log' = <<>>
    /\ UNCHANGED <<convs, packed>>
    /\ RequiresFrame

RequiresDeparted(s) ==
    /\ pstates' = [pstates EXCEPT ![s] = Requires_departed_states(@)]
    /\ convs' = Leave(convs, s)
    /\ call' = Call("requires.departed", s, None, None, pstates[s])
    /\ log' = <<>>
    /\ UNCHANGED packed
    /\ RequiresFrame

RequiresUpdateStatus(s) ==
    /\ pstates' = [pstates EXCEPT ![s] = Requires_update_status(s, @)]
    /\ call' = Call("requires.update_status", s, None, None, pstates[s])
    /\ log' = <<>>
    /\ UNCHANGED <<convs, packed>>
    /\ RequiresFrame

RequiresClearChanged(s) ==
    /\ pstates' = [pstates EXCEPT ![s] = Requires_clear_changed_states(@)]
    /\ packed' = [packed EXCEPT
                    ![s] = IF CHANGED \in pstates[s]
                           THEN Seen(Requires_name(s), Requires_configuration_data(s))
                           ELSE @]
    /\ call' = Call("requires.clear_changed", s, None, None, pstates[s])
    /\ log' = <<>>
    /\ UNCHANGED convs
    /\ RequiresFrame

\* name (getter)
Requires_get_name(s) == Requires_name(s)

\* configuration_data (getter)
Requires_get_configuration_data(s) ==
    LET data == Requires_configuration_data(s)
    IN  IF data = None THEN None ELSE Unwrap(data)

\* authentication_data (getter); a ValueError of the lookup is caught.
Requires_get_authentication_data(fault) ==
    IF convs = <<>> THEN Raise("IndexError")
    ELSE IF fault = Fault(convs[1], "get_local") THEN None
    ELSE LET data == plocal[convs[1]]
         IN  IF data = None THEN None ELSE Unwrap(data)

\* The 8 expected fields and the warning of the setter.
keys == {"username", "password", "project_domain_id", "project_name",
         "user_domain_id", "auth_uri", "auth_url", "auth_type"}
KeyMismatch(value) ==
    (DOMAIN value.d \ keys) # {} \/ (keys \ DOMAIN value.d) # {}

\* Variants of the comparison: one that compares the decoded envelope, not
\* its "data" member, with the value; one that compares the key sets alone.
SameAuth_NotUnwrapped(existing_auth, value) ==
    LET envelope == [data |-> existing_auth]
    IN  /\ DOMAIN envelope = DOMAIN value.d
        /\ \A k \in DOMAIN envelope : envelope[k] = value.d[k]

SameAuth_KeysOnly(existing_auth, value) ==
    DOMAIN existing_auth.d = DOMAIN value.d

\* existing_auth.keys() == value.keys() and all(v == value[k] ...)
SameAuth(existing_auth, value) ==
    /\ DOMAIN existing_auth.d = DOMAIN value.d
    /\ \A k \in DOMAIN existing_auth.d : existing_auth.d[k] = value.d[k]

(* The loop of authentication_data (setter) over the conversations cs,     *)
(* threading the local cache, the remote slots and the write log; ret is   *)
(* None, or the exception that left the loop.                              *)
RECURSIVE SetAuthLoop(_, _, _, _, _, _)
SetAuthLoop(cs, loc, rem, lg, value, fault) ==
    IF cs = <<>> THEN [local |-> loc, remote |-> rem, log |-> lg, ret |-> None]
    ELSE
    LET s == Head(cs)
        existing_auth_data ==
            IF fault = Fault(s, "get_local") THEN None ELSE loc[s]
        existing_auth ==
            IF existing_auth_data = None THEN None ELSE Unwrap(existing_auth_data)
        payload == Envelope(value)
        loc1 == [loc EXCEPT ![s] = payload]
        lg1 == Append(lg, Write("set_local", s, "_authentication_data", payload))
        rem1 == [rem EXCEPT ![s] = payload]
        lg2 == Append(lg1, Write("set_remote", s, "_authentication_data", payload))
    IN  IF existing_auth_data # None /\ IsRaise(existing_auth)
        THEN [local |-> loc, remote |-> rem, log |-> lg, ret |-> existing_auth]
        ELSE IF existing_auth_data # None /\ SameAuth(existing_auth, value)
        THEN SetAuthLoop(Tail(cs), loc, rem, lg, value, fault)
        ELSE IF fault = Fault(s, "set_local")
        THEN [local |-> loc, remote |-> rem, log |-> lg,
              ret |-> Raise("TransportError")]
        ELSE IF fault = Fault(s, "set_remote")
        THEN [local |-> loc1, remote |-> rem, log |-> lg1,
              ret |-> Raise("TransportError")]
        ELSE SetAuthLoop(Tail(cs), loc1, rem1, lg2, value, fault)

\* A variant of the setter that rejects a value whose keys are not the
\* expected ones.
Requires_set_authentication_data_Strict(value, fault) ==
    IF KeyMismatch(value)
    THEN [local |-> plocal, remote |-> premote, log |-> <<>>, ret |-> None]
    ELSE SetAuthLoop(convs, plocal, premote, <<>>, value, fault)

Requires_set_authentication_data(value, fault) ==
    SetAuthLoop(convs, plocal, premote, <<>>, value, fault)

RequiresSetAuthenticationData(value, fault) ==
    LET r == Requires_set_authentication_data(value, fault)
    IN  /\ plocal' = r.local
        /\ premote' = r.remote
        /\ log' = r.log
        /\ call' = Call("requires.authentication_data.setter", GLOBAL, value, r.ret,
                         plocal)
        /\ UNCHANGED <<convs, pstates, packed,
                       qconvs, qstates, qlocal, qremote, qacked>>

RequiresGetAuthenticationData(fault) ==
    /\ call' = Call("requires.authentication_data", GLOBAL, None,
                    Requires_get_authentication_data(fault), {})
    /\ log' = <<>>
    /\ UNCHANGED <<convs, pstates, packed, plocal, premote,
                   qconvs, qstates, qlocal, qremote, qacked>>

RequiresGetName(s) ==
    /\ call' = Call("requires.name", s, None, Requires_get_name(s), pstates[s])
    /\ log' = <<>>
    /\ UNCHANGED <<convs, pstates, packed, plocal, premote,
                   qconvs, qstates, qlocal, qremote, qacked>>

RequiresGetConfigurationData(s) ==
    /\ call' = Call("requires.configuration_data", s, None,
                    Requires_get_configuration_data(s), pstates[s])
    /\ log' = <<>>
    /\ UNCHANGED <<convs, pstates, packed, plocal, premote,
                   qconvs, qstates, qlocal, qremote, qacked>>

----------------------------------------------------------------------------
(* The subordinate end: ManilaPluginProvides (provides.py) *)

\* The auto accessor: what the principal published to this plugin unit.
Provides_authentication_data == premote[1]

\* Variants of update_status: one that sets changed alone, one that sets the
\* states only for data the last clear_changed has not seen.
Provides_update_status_ChangedOnly(st) ==
    IF Provides_authentication_data # None
    THEN set_state(st, CHANGED)
    ELSE st

Provides_update_status_OnlyIfDiffers(st) ==
    IF Provides_authentication_data # None /\ Provides_authentication_data # qacked
    THEN set_state(set_state(st, AVAILABLE), CHANGED)
    ELSE st

Provides_update_status(st) ==
    IF Provides_authentication_data # None
    THEN set_state(set_state(st, AVAILABLE), CHANGED)
    ELSE st

\* A variant of departed that leaves the available state.
Provides_departed_states_KeepsAvailable(st) ==
    remove_state(remove_state(st, CHANGED), CONNECTED)

Provides_departed_states(st) ==
    remove_state(remove_state(remove_state(st, CHANGED), AVAILABLE), CONNECTED)

\* A variant of clear_changed that takes the available state too.
Provides_clear_changed_states_AndAvailable(st) ==
    remove_state(remove_state(st, CHANGED), AVAILABLE)

Provides_clear_changed_states(st) == remove_state(st, CHANGED)

ProvidesFrame == UNCHANGED <<convs, pstates, plocal, premote, packed, qlocal, qremote>>

ProvidesJoined ==
    /\ qstates' = Provides_update_status(set_state(qstates, CONNECTED))
    /\ qconvs' = Join(qconvs, GLOBAL)
    /\ call' = Call("provides.joined", GLOBAL, None, None, qstates)
    /\ log' = <<>>
    /\ UNCHANGED qacked
    /\ ProvidesFrame

\* A variant of changed that acknowledges the change itself.
ProvidesChanged_Acks ==
    /\ qstates' = remove_state(Provides_update_status(qstates), CHANGED)
    /\ call' = Call("provides.changed", GLOBAL, None, None, qstates)
    /\ log' = <<>>
    /\ UNCHANGED <<qconvs, qacked>>
    /\ ProvidesFrame

ProvidesChanged ==
    /\ qstates' = Provides_update_status(qstates)
    /\ call' = Call("provides.changed", GLOBAL, None, None, qstates)
    /\ log' = <<>>
    /\ UNCHANGED <<qconvs, qacked>>
    /\ ProvidesFrame

ProvidesDeparted ==
    /\ qstates' = Provides_departed_states(qstates)
    /\ qconvs' = Leave(qconvs, GLOBAL)
    /\ call' = Call("provides.departed", GLOBAL, None, None, qstates)
    /\ log' = <<>>
    /\ UNCHANGED qacked
    /\ ProvidesFrame

ProvidesUpdateStatus ==
    /\ qstates' = Provides_update_status(qstates)
    /\ call' = Call("provides.update_status", GLOBAL, None, None, qstates)
    /\ log' = <<>>
    /\ UNCHANGED <<qconvs, qacked>>
    /\ ProvidesFrame

ProvidesClearChanged ==
    /\ qstates' = Provides_clear_changed_states(qstates)
    /\ qacked' = IF CHANGED \in qstates
                  THEN Provides_authentication_data
                  ELSE qacked
    /\ call' = Call("provides.clear_changed", GLOBAL, None, None, qstates)
    /\ log' = <<>>
    /\ UNCHANGED qconvs
    /\ ProvidesFrame

\* name (getter)
Provides_get_name ==
    IF qconvs = <<>> THEN Raise("IndexError") ELSE qlocal.name

\* authentication_data (getter)
Provides_get_authentication_data ==
    LET data == Provides_authentication_data
    IN  IF data = None THEN None ELSE Unwrap(data)

\* configuration_data (getter)
Provides_get_configuration_data ==
    IF qconvs = <<>> THEN Raise("IndexError")
    ELSE LET data == qlocal.config
         IN  IF data = None THEN None ELSE Unwrap(data)

\* A variant of the name setter that forgets the remote slot.
Provides_set_name_LocalOnly(name) ==
    IF qconvs = <<>>
    THEN [local |-> qlocal, remote |-> qremote, log |-> <<>>,
          ret |-> Raise("IndexError")]
    ELSE [local |-> [qlocal EXCEPT !.name = name],
          remote |-> qremote,
          log |-> <<Write("set_local", qconvs[1], "_name", name)>>,
          ret |-> None]

\* name (setter): set_local, then set_remote, on the first conversation.
Provides_set_name(name) ==
    IF qconvs = <<>>
    THEN [local |-> qlocal, remote |-> qremote, log |-> <<>>,
          ret |-> Raise("IndexError")]
    ELSE [local |-> [qlocal EXCEPT !.name = name],
          remote |-> [qremote EXCEPT !.name = name],
          log |-> <<Write("set_local", qconvs[1], "_name", name),
                    Write("set_remote", qconvs[1], "_name", name)>>,
          ret |-> None]

\* A variant of the configuration_data setter that skips data it has stored.
Provides_set_configuration_data_Dedup(data) ==
    IF qconvs = <<>>
    THEN [local |-> qlocal, remote |-> qremote, log |-> <<>>,
          ret |-> Raise("IndexError")]
    ELSE IF qlocal.config = Envelope(data)
    THEN [local |-> qlocal, remote |-> qremote, log |-> <<>>, ret |-> None]
    ELSE [local |-> [qlocal EXCEPT !.config = Envelope(data)],
          remote |-> [qremote EXCEPT !.config = Envelope(data)],
          log |-> <<Write("set_local", qconvs[1], "_configuration_data",
                          Envelope(data)),
                    Write("set_remote", qconvs[1], "_configuration_data",
                          Envelope(data))>>,
          ret |-> None]

\* configuration_data (setter)
Provides_set_configuration_data(data) ==
    IF qconvs = <<>>
    THEN [local |-> qlocal, remote |-> qremote, log |-> <<>>,
          ret |-> Raise("IndexError")]
    ELSE [local |-> [qlocal EXCEPT !.config = Envelope(data)],
          remote |-> [qremote EXCEPT !.config = Envelope(data)],
          log |-> <<Write("set_local", qconvs[1], "_configuration_data",
                          Envelope(data)),
                    Write("set_remote", qconvs[1], "_configuration_data",
                          Envelope(data))>>,
          ret |-> None]

ProvidesSetName(name) ==
    LET r == Provides_set_name(name)
    IN  /\ qlocal' = r.local
        /\ qremote' = r.remote
        /\ log' = r.log
        /\ call' = Call("provides.name.setter", GLOBAL, name, r.ret, qlocal)
        /\ UNCHANGED <<convs, pstates, plocal, premote, packed,
                       qconvs, qstates, qacked>>

\* A variant of the configuration_data setter that flags the change at its
\* own end.
ProvidesSetConfigurationData_SetsChanged(data) ==
    LET r == Provides_set_configuration_data(data)
    IN  /\ qlocal' = r.local
        /\ qremote' = r.remote
        /\ log' = r.log
        /\ call' = Call("provides.configuration_data.setter", GLOBAL, data,
                        r.ret, qlocal)
        /\ qstates' = set_state(qstates, CHANGED)
        /\ UNCHANGED <<convs, pstates, plocal, premote, packed, qconvs, qacked>>

ProvidesSetConfigurationData(data) ==
    LET r == Provides_set_configuration_data(data)
    IN  /\ qlocal' = r.local
        /\ qremote' = r.remote
        /\ log' = r.log
        /\ call' = Call("provides.configuration_data.setter", GLOBAL, data,
                        r.ret, qlocal)
        /\ UNCHANGED <<convs, pstates, plocal, premote, packed,
                       qconvs, qstates, qacked>>

ProvidesGetName ==
    /\ call' = Call("provides.name", GLOBAL, None, Provides_get_name, qstates)
    /\ log' = <<>>
    /\ UNCHANGED <<convs, pstates, plocal, premote, packed,
                   qconvs, qstates, qlocal, qremote, qacked>>

ProvidesGetAuthenticationData ==
    /\ call' = Call("provides.authentication_data", GLOBAL, None,
                    Provides_get_authentication_data, qstates)
    /\ log' = <<>>
    /\ UNCHANGED <<convs, pstates, plocal, premote, packed,
                   qconvs, qstates, qlocal, qremote, qacked>>

ProvidesGetConfigurationData ==
    /\ call' = Call("provides.configuration_data", GLOBAL, None,
                    Provides_get_configuration_data, qstates)
    /\ log' = <<>>
    /\ UNCHANGED <<convs, pstates, plocal, premote, packed,
                   qconvs, qstates, qlocal, qremote, qacked>>

----------------------------------------------------------------------------
(* Inputs *)

\* Authentication data: the 8 fields; a change of password; a record
\* without auth_type; a record with a key that is not expected.
auth1 ==
    Dict([username |-> Str("manila"), password |-> Str("p1"),
          project_domain_id |-> Str("default"), project_name |-> Str("services"),
          user_domain_id |-> Str("default"), auth_uri |-> Str("http://k:5000"),
          auth_url |-> Str("http://k:35357"), auth_type |-> Str("password")])
auth2 == Dict([auth1.d EXCEPT !.password = Str("p2")])
auth3 == Dict([k \in keys \ {"auth_type"} |-> auth1.d[k]])
auth4 == Dict(auth1.d @@ ("region" :> Str("RegionOne")))
AuthInputs == {auth1, auth2, auth3, auth4}

NameInputs == {None, Str("generic")}

\* Configuration data: the sections as lists of pairs, and as the tuples of
\* pairs the setter's documentation shows.
config1 ==
    Dict("complete" :> Bool(TRUE) @@
         "manila.conf" :>
            Dict("DEFAULT" :> List(<<List(<<Str("a"), Str("b")>>)>>)))
config2 ==
    Dict("complete" :> Bool(FALSE) @@
         "manila.conf" :>
            Dict("DEFAULT" :> Tuple(<<Tuple(<<Str("a"), Str("b")>>)>>)))
ConfigInputs == {config1, config2}

----------------------------------------------------------------------------
(* Specifications *)

Init ==
    /\ convs = <<>>
    /\ pstates = [s \in Sessions |-> {}]
    /\ plocal = [s \in Sessions |-> None]
    /\ premote = [s \in Sessions |-> None]
    /\ qconvs = <<>>
    /\ qstates = {}
    /\ qlocal = [name |-> None, config |-> None]
    /\ qremote = [name |-> None, config |-> None]
    /\ packed = [s \in Sessions |-> Never]
    /\ qacked = Never
    /\ call = Call("init", GLOBAL, None, None, {})
    /\ log = <<>>

(* Spec: the conversation between the principal and the plugin unit, every *)
(* lifecycle event and flag operation of both ends in any order, with the  *)
(* data each end publishes to the other.                                   *)
Next ==
    \/ RequiresJoined(1)
    \/ RequiresChanged(1)
    \/ RequiresDeparted(1)
    \/ RequiresUpdateStatus(1)
    \/ RequiresClearChanged(1)
    \/ \E value \in {auth1, auth2} : RequiresSetAuthenticationData(value, NoFault)
    \/ ProvidesJoined
    \/ ProvidesChanged
    \/ ProvidesDeparted
    \/ ProvidesUpdateStatus
    \/ ProvidesClearChanged
    \/ \E name \in NameInputs : ProvidesSetName(name)
    \/ \E data \in ConfigInputs : ProvidesSetConfigurationData(data)

Spec == Init /\ [][Next]_vars

(* SpecLive: the behaviours of Spec in which the changed hook of each end  *)
(* is dispatched whenever it stays pending.                                *)
SpecLive ==
    /\ Init /\ [][Next]_vars
    /\ WF_vars(ProvidesChanged)
    /\ WF_vars(RequiresChanged(1))

(* SpecOrdered: the flag lifecycle of both ends with the hooks of a        *)
(* conversation in order: joined, then changed and the calls made from the *)
(* charm's handlers, then departed.                                        *)
NextOrdered ==
    \/ RequiresJoined(1)
    \/ InConvs(convs, 1) /\ RequiresChanged(1)
    \/ InConvs(convs, 1) /\ RequiresDeparted(1)
    \/ InConvs(convs, 1) /\ RequiresUpdateStatus(1)
    \/ InConvs(convs, 1) /\ RequiresClearChanged(1)
    \/ \E value \in {auth1, auth2} : RequiresSetAuthenticationData(value, NoFault)
    \/ ProvidesJoined
    \/ qconvs # <<>> /\ ProvidesChanged
    \/ qconvs # <<>> /\ ProvidesDeparted
    \/ qconvs # <<>> /\ ProvidesUpdateStatus
    \/ qconvs # <<>> /\ ProvidesClearChanged
    \/ \E name \in NameInputs : ProvidesSetName(name)
    \/ \E data \in ConfigInputs : ProvidesSetConfigurationData(data)

SpecOrdered == Init /\ [][NextOrdered]_vars

(* SpecAuth: the principal's accessors of the authentication data, with    *)
(* its conversations joining and departing in any order.                   *)
NextAuth ==
    \/ \E s \in Sessions : RequiresJoined(s)
    \/ \E s \in Sessions : RequiresDeparted(s)
    \/ \E value \in AuthInputs : RequiresSetAuthenticationData(value, NoFault)
    \/ RequiresGetAuthenticationData(NoFault)

SpecAuth == Init /\ [][NextAuth]_vars

(* SpecStores: every write of both ends, with the conversations of both    *)
(* ends joining and departing in any order.                                *)
NextStores ==
    \/ \E s \in Sessions : RequiresJoined(s)
    \/ \E s \in Sessions : RequiresDeparted(s)
    \/ \E value \in {auth1, auth2} :
          RequiresSetAuthenticationData(value, NoFault)
    \/ ProvidesJoined
    \/ ProvidesDeparted
    \/ \E name \in NameInputs : ProvidesSetName(name)
    \/ \E data \in ConfigInputs : ProvidesSetConfigurationData(data)

SpecStores == Init /\ [][NextStores]_vars

(* SpecData: the data accessors of both ends over the conversation between *)
(* the principal and the plugin unit, which joins and departs at either    *)
(* end in any order.                                                       *)
NextData ==
    \/ RequiresJoined(1)
    \/ RequiresDeparted(1)
    \/ \E value \in AuthInputs : RequiresSetAuthenticationData(value, NoFault)
    \/ RequiresGetAuthenticationData(NoFault)
    \/ RequiresGetName(1)
    \/ RequiresGetConfigurationData(1)
    \/ ProvidesJoined
    \/ ProvidesDeparted
    \/ \E name \in NameInputs : ProvidesSetName(name)
    \/ \E data \in ConfigInputs : ProvidesSetConfigurationData(data)
    \/ ProvidesGetName
    \/ ProvidesGetAuthenticationData
    \/ ProvidesGetConfigurationData

SpecData == Init /\ [][NextData]_vars

(* SpecFault: the principal's accessors of the authentication data over a  *)
(* transport whose calls may fail for one conversation.                    *)
Faults ==
    {NoFault} \cup
    {Fault(s, fn) : s \in Sessions, fn \in {"get_local", "set_local", "set_remote"}}

NextFault ==
    \/ \E s \in Sessions : RequiresJoined(s)
    \/ \E s \in Sessions : RequiresDeparted(s)
    \/ \E value \in AuthInputs, fault \in Faults :
          RequiresSetAuthenticationData(value, fault)
    \/ \E fault \in Faults : RequiresGetAuthenticationData(fault)

SpecFault == Init /\ [][NextFault]_vars

----------------------------------------------------------------------------
(* Properties *)

\* The number of calls of the transport function fn for the scope s in a log.
WritesTo(lg, s, fn) ==
    Cardinality({i \in DOMAIN lg : lg[i].scope = s /\ lg[i].fn = fn})

SetterOp == "requires.authentication_data.setter"
RequiresUpdateOps ==
    {"requires.joined", "requires.changed", "requires.update_status"}
ProvidesUpdateOps ==
    {"provides.joined", "provides.changed", "provides.update_status"}

(* C1: on both ends, in every reachable state, a conversation whose        *)
(* changed state is set has its available state set.                       *)
C1_ChangedImpliesAvailable ==
    /\ \A s \in Sessions : CHANGED \in pstates[s] => AVAILABLE \in pstates[s]
    /\ CHANGED \in qstates => AVAILABLE \in qstates

\* The plugin's changed handler has just set both states, and the principal
\* has its changed state set too.
C1_Witness ==
    /\ call.op = "provides.changed"
    /\ AVAILABLE \notin call.was
    /\ CHANGED \in qstates
    /\ CHANGED \in pstates[1]

(* C2: a call of the principal's authentication_data setter that follows   *)
(* a call with the same value writes nothing (no set_local, no set_remote, *)
(* the stores as they were); and a call writes exactly once, to the local  *)
(* cache and to the remote slot, for a conversation with nothing stored.   *)
C2_IdempotentAuthWrite ==
    [][call'.op = SetterOp =>
        /\ (call.op = SetterOp /\ call.arg = call'.arg) =>
              (log' = <<>> /\ plocal' = plocal /\ premote' = premote)
        /\ \A s \in Sessions :
              (InConvs(convs, s) /\ plocal[s] = None) =>
                 /\ WritesTo(log', s, "set_local") = 1
                 /\ WritesTo(log', s, "set_remote") = 1
      ]_vars

\* A second call with the value of the first has just run with two
\* conversations present: it wrote nothing.
C2_Witness ==
    /\ call.op = SetterOp
    /\ Len(convs) = 2
    /\ \A i \in DOMAIN convs : call.was[convs[i]] = Envelope(call.arg)
    /\ \A i \in DOMAIN convs : plocal[convs[i]] = Envelope(call.arg)
    /\ log = <<>>

(* C3: a call of the setter with the value v writes exactly once, to the   *)
(* local cache and to the remote slot, for every conversation whose stored *)
(* payload is absent or differs from v, and not at all for a conversation  *)
(* whose stored payload equals v or that is not joined; so a call with a   *)
(* value other than the previous call's writes to every conversation.      *)
C3_OneWritePerDifferingSession ==
    [][call'.op = SetterOp =>
        /\ \A s \in Sessions :
              LET v == call'.arg
                  differs ==
                      /\ InConvs(convs, s)
                      /\ (plocal[s] = None \/ Unwrap(plocal[s]) # v)
              IN  /\ differs =>
                        /\ WritesTo(log', s, "set_local") = 1
                        /\ WritesTo(log', s, "set_remote") = 1
                        /\ plocal'[s] = Envelope(v)
                        /\ premote'[s] = Envelope(v)
                  /\ ~differs =>
                        /\ WritesTo(log', s, "set_local") = 0
                        /\ WritesTo(log', s, "set_remote") = 0
                        /\ plocal'[s] = plocal[s]
                        /\ premote'[s] = premote[s]
        /\ \A i \in DOMAIN log' : log'[i].value = Envelope(call'.arg)
        /\ (call.op = SetterOp /\ call.arg # call'.arg) =>
              \A i \in DOMAIN convs :
                 /\ WritesTo(log', convs[i], "set_local") = 1
                 /\ WritesTo(log', convs[i], "set_remote") = 1
      ]_vars

\* A call has just written to the conversation that joined last and to no
\* other, the older conversation holding the value already.
C3_Witness ==
    /\ call.op = SetterOp
    /\ Len(convs) = 2
    /\ WritesTo(log, convs[2], "set_remote") = 1
    /\ WritesTo(log, convs[1], "set_remote") = 0
    /\ WritesTo(log, convs[1], "set_local") = 0
    /\ call.was[convs[1]] = Envelope(call.arg)
    /\ call.was[convs[2]] = None

(* C4: once available is set for a conversation, the only step that takes  *)
(* it away is a departed/broken event of that conversation: no changed     *)
(* event, update_status run, clear_changed call or write of either end     *)
(* does, whether or not the peer's data is still present.                  *)
C4_AvailableUntilDeparted ==
    [][/\ \A s \in Sessions :
             (AVAILABLE \in pstates[s] /\ AVAILABLE \notin pstates'[s]) =>
                (call'.op = "requires.departed" /\ call'.scope = s)
       /\ (AVAILABLE \in qstates /\ AVAILABLE \notin qstates') =>
             call'.op = "provides.departed"
      ]_vars

\* The principal's changed handler has just run for an available
\* conversation whose peer has withdrawn its name: it is still available.
C4_Witness ==
    /\ call.op = "requires.changed"
    /\ AVAILABLE \in call.was
    /\ Requires_name(call.scope) = None
    /\ AVAILABLE \in pstates[call.scope]

(* C5 as stated: only clear_changed takes a conversation from changed set  *)
(* to changed unset.                                                       *)
C5_OnlyClearChangedClears ==
    [][/\ \A s \in Sessions :
             (CHANGED \in pstates[s] /\ CHANGED \notin pstates'[s]) =>
                (call'.op = "requires.clear_changed" /\ call'.scope = s)
       /\ (CHANGED \in qstates /\ CHANGED \notin qstates') =>
             call'.op = "provides.clear_changed"
      ]_vars

(* C5, amended: only clear_changed and the departed/broken event of the    *)
(* conversation take it from changed set to changed unset.                 *)
C5_ClearedByAckOrDeparted ==
    [][/\ \A s \in Sessions :
             (CHANGED \in pstates[s] /\ CHANGED \notin pstates'[s]) =>
                /\ call'.op \in {"requires.clear_changed", "requires.departed"}
                /\ call'.scope = s
       /\ (CHANGED \in qstates /\ CHANGED \notin qstates') =>
             call'.op \in {"provides.clear_changed", "provides.departed"}
      ]_vars

\* The principal's departed handler has just run for a conversation whose
\* changed state was set and not acknowledged: it is unset.
C5_Witness ==
    /\ call.op = "requires.departed"
    /\ CHANGED \in call.was
    /\ packed[call.scope] = Never
    /\ CHANGED \notin pstates[call.scope]

(* C6 as stated: whenever changed is set, the conversation is available    *)
(* and the peer's data differs from the data seen by the last              *)
(* clear_changed.                                                          *)
C6_ChangedMeansDataDiffers ==
    /\ \A s \in Sessions :
          CHANGED \in pstates[s] =>
             /\ AVAILABLE \in pstates[s]
             /\ packed[s] # Seen(Requires_name(s), Requires_configuration_data(s))
    /\ CHANGED \in qstates =>
          /\ AVAILABLE \in qstates
          /\ qacked # Provides_authentication_data

(* C6, amended: every joined, changed and update_status run that finds the *)
(* peer's data present leaves available and changed set, whether or not    *)
(* the data differs from the data seen by the last clear_changed; and      *)
(* after any step a conversation with changed set is available.            *)
C6_ChangedOnEveryUpdateWithData ==
    [][/\ (/\ call'.op \in RequiresUpdateOps
           /\ Requires_name(call'.scope) # None
           /\ Requires_configuration_data(call'.scope) # None) =>
             {AVAILABLE, CHANGED} \subseteq pstates'[call'.scope]
       /\ (call'.op \in ProvidesUpdateOps /\ Provides_authentication_data # None) =>
             {AVAILABLE, CHANGED} \subseteq qstates'
       /\ \A s \in Sessions :
             CHANGED \in pstates'[s] => AVAILABLE \in pstates'[s]
       /\ CHANGED \in qstates' => AVAILABLE \in qstates'
      ]_vars

\* A changed event has just set changed again, after an acknowledgment,
\* with the peer's data as the acknowledgment saw it.
C6_Witness ==
    /\ call.op = "requires.changed"
    /\ CHANGED \notin call.was
    /\ CHANGED \in pstates[call.scope]
    /\ packed[call.scope] =
          Seen(Requires_name(call.scope), Requires_configuration_data(call.scope))

(* C7: a departed/broken event leaves connected, available and changed     *)
(* all unset, on either end and from any state; and from the state with    *)
(* all three unset it changes no state and no stored data.                 *)
C7_DepartedClearsAll ==
    [][/\ call'.op = "requires.departed" =>
             /\ pstates'[call'.scope] = {}
             /\ \A s \in Sessions \ {call'.scope} : pstates'[s] = pstates[s]
             /\ pstates[call'.scope] = {} =>
                   UNCHANGED <<pstates, plocal, premote, qstates, qlocal, qremote>>
       /\ call'.op = "provides.departed" =>
             /\ qstates' = {}
             /\ qstates = {} =>
                   UNCHANGED <<pstates, plocal, premote, qstates, qlocal, qremote>>
      ]_vars

\* The plugin's departed handler has just run from the state with all
\* three set.
C7_Witness ==
    /\ call.op = "provides.departed"
    /\ call.was = States
    /\ qstates = {}

(* C8: a changed event for a conversation whose changed state is set       *)
(* leaves it set, on either end.                                           *)
C8_ChangedKeepsChanged ==
    [][/\ (call'.op = "requires.changed" /\ CHANGED \in pstates[call'.scope]) =>
             CHANGED \in pstates'[call'.scope]
       /\ (call'.op = "provides.changed" /\ CHANGED \in qstates) =>
             CHANGED \in qstates'
      ]_vars

\* The principal's changed handler has just run a second time in a row
\* with the changed state set and not acknowledged.
C8_Witness ==
    /\ call.op = "requires.changed"
    /\ CHANGED \in call.was
    /\ AVAILABLE \in call.was
    /\ Requires_name(call.scope) # None
    /\ CHANGED \in pstates[call.scope]

(* C9 as stated: with no conversation, the plugin's name and               *)
(* configuration_data getters and the principal's authentication_data      *)
(* getter return None.                                                     *)
C9_NoSessionReadsNone ==
    /\ (call.op \in {"provides.name", "provides.configuration_data"}
          /\ qconvs = <<>>) => call.ret = None
    /\ (call.op = "requires.authentication_data" /\ convs = <<>>) =>
          call.ret = None

(* C10 as stated: after a call of the setter, whatever failed for one      *)
(* conversation, every other conversation holds the new value: the         *)
(* conversations whose payload differed have received their write.         *)
C10_FailureDoesNotStopOthers ==
    (call.op = SetterOp /\ convs # <<>>) =>
        \E f \in DOMAIN convs :
           \A i \in DOMAIN convs \ {f} :
              /\ plocal[convs[i]] = Envelope(call.arg)
              /\ premote[convs[i]] = Envelope(call.arg)

(* C11: on the principal, a joined, changed or update_status run sets      *)
(* available and changed when the peer's name and its configuration data   *)
(* are both present, and leaves the two states as they were when either is *)
(* absent; on the plugin it sets them when authentication data has been    *)
(* received and leaves them as they were when it has not.                  *)
C11_UpdateStatusTrigger ==
    [][/\ call'.op \in RequiresUpdateOps =>
             LET s == call'.scope
                 present == /\ Requires_name(s) # None
                            /\ Requires_configuration_data(s) # None
             IN  /\ present => {AVAILABLE, CHANGED} \subseteq pstates'[s]
                 /\ ~present =>
                       pstates'[s] \cap {AVAILABLE, CHANGED} =
                          pstates[s] \cap {AVAILABLE, CHANGED}
       /\ call'.op \in ProvidesUpdateOps =>
             /\ Provides_authentication_data # None =>
                   {AVAILABLE, CHANGED} \subseteq qstates'
             /\ Provides_authentication_data = None =>
                   qstates' \cap {AVAILABLE, CHANGED} =
                      qstates \cap {AVAILABLE, CHANGED}
      ]_vars

\* The principal's joined handler has just run with the peer's
\* configuration data present and its name absent: only connected is set.
C11_Witness ==
    /\ call.op = "requires.joined"
    /\ call.was = {}
    /\ Requires_configuration_data(call.scope) # None
    /\ Requires_name(call.scope) = None
    /\ pstates[call.scope] = {CONNECTED}

(* C12: clear_changed takes the changed state of its conversation away and *)
(* changes nothing else: not its available or connected state, not another *)
(* conversation's states, not the other end's states, and no stored local  *)
(* or remote value.                                                        *)
C12_ClearChangedOnly ==
    [][/\ call'.op = "requires.clear_changed" =>
             /\ pstates' = [pstates EXCEPT ![call'.scope] = @ \ {CHANGED}]
             /\ UNCHANGED <<convs, plocal, premote,
                            qconvs, qstates, qlocal, qremote>>
       /\ call'.op = "provides.clear_changed" =>
             /\ qstates' = qstates \ {CHANGED}
             /\ UNCHANGED <<convs, pstates, plocal, premote,
                            qconvs, qlocal, qremote>>
      ]_vars

\* The plugin's clear_changed has just run from the state with all three
\* set, with data stored at both ends.
C12_Witness ==
    /\ call.op = "provides.clear_changed"
    /\ call.was = States
    /\ qstates = {CONNECTED, AVAILABLE}
    /\ qlocal.config # None
    /\ plocal[1] # None

(* C13: a call of the setter with a value whose keys are not the 8         *)
(* expected ones (a key missing, a key added) writes that value, as        *)
(* passed, to the local cache and the remote slot of every conversation    *)
(* whose stored payload is absent or differs, so that the peer reads the   *)
(* value back with the very keys it was passed with.                       *)
C13_KeyMismatchStillWrites ==
    [][(call'.op = SetterOp /\ KeyMismatch(call'.arg)) =>
          \A i \in DOMAIN convs :
             LET s == convs[i]
                 v == call'.arg
             IN  /\ plocal'[s] = Envelope(v)
                 /\ premote'[s] = Envelope(v)
                 /\ Unwrap(premote'[s]) = v
                 /\ DOMAIN Unwrap(premote'[s]).d = DOMAIN v.d
                 /\ (plocal[s] = None \/ Unwrap(plocal[s]) # v) =>
                       /\ WritesTo(log', s, "set_local") = 1
                       /\ WritesTo(log', s, "set_remote") = 1
      ]_vars

\* The setter has just written the record without auth_type over the
\* 8-field record of a conversation.
C13_Witness ==
    /\ call.op = SetterOp
    /\ call.arg = auth3
    /\ convs # <<>>
    /\ call.was[convs[1]] = Envelope(auth1)
    /\ WritesTo(log, convs[1], "set_remote") = 1
    /\ premote[convs[1]] = Envelope(auth3)

ConfigSetterOp == "provides.configuration_data.setter"
SetterOps == {SetterOp, ConfigSetterOp, "provides.name.setter"}
FlagOps ==
    RequiresUpdateOps \cup ProvidesUpdateOps \cup
    {"requires.departed", "requires.clear_changed",
     "provides.departed", "provides.clear_changed"}

(* C14 as stated: once the plugin has set its configuration data to d, the *)
(* principal's configuration_data getter returns a value equal to d; and   *)
(* once the principal has set the authentication data of the plugin's      *)
(* conversation to v, the plugin's authentication_data getter returns a    *)
(* value equal to v.                                                       *)
C14_RoundTrip ==
    /\ (call.op = ConfigSetterOp /\ call.ret = None) =>
          Requires_get_configuration_data(1) = call.arg
    /\ (call.op = SetterOp /\ InConvs(convs, 1)) =>
          Provides_get_authentication_data = call.arg

(* C15: with its conversation present, every call of the plugin's          *)
(* configuration_data setter writes the envelope of its argument to the    *)
(* local cache and then to the remote slot, whatever is stored already.    *)
C15_ConfigWrittenUnconditionally ==
    [][(call'.op = ConfigSetterOp /\ qconvs # <<>>) =>
          LET payload == Envelope(call'.arg)
          IN  /\ log' = <<Write("set_local", GLOBAL, "_configuration_data", payload),
                          Write("set_remote", GLOBAL, "_configuration_data", payload)>>
              /\ qlocal'.config = payload
              /\ qremote'.config = payload
              /\ call'.ret = None
      ]_vars

\* The setter has just run with the data that was stored already, and has
\* written it again.
C15_Witness ==
    /\ call.op = ConfigSetterOp
    /\ call.was.config = Envelope(call.arg)
    /\ Len(log) = 2
    /\ qremote.config = Envelope(call.arg)

(* C17: in every reachable state the local cache and the remote slot hold  *)
(* the same value: the '_authentication_data' of every conversation of the *)
(* principal, and the '_name' and '_configuration_data' of the plugin.     *)
C17_LocalEqualsRemote ==
    /\ \A s \in Sessions : plocal[s] = premote[s]
    /\ qlocal.name = qremote.name
    /\ qlocal.config = qremote.config

\* Every field has been written, the name last, and two conversations of
\* the principal hold different payloads.
C17_Witness ==
    /\ call.op = "provides.name.setter"
    /\ qlocal.name # None
    /\ qlocal.config # None
    /\ plocal[1] # None
    /\ plocal[2] # None
    /\ plocal[1] # plocal[2]

(* C19: the setters (the principal's authentication_data, the plugin's     *)
(* configuration_data and name) change no reactive state of either end,    *)
(* and the flag operations (joined, changed, departed, update_status,      *)
(* clear_changed) change no stored local or remote value.                  *)
C19_Frame ==
    [][/\ call'.op \in SetterOps => UNCHANGED <<pstates, qstates, convs, qconvs>>
       /\ call'.op \in FlagOps => UNCHANGED <<plocal, premote, qlocal, qremote>>
      ]_vars

\* The plugin's configuration_data setter has just written while all three
\* states were set at both ends: they still are.
C19_Witness ==
    /\ call.op = ConfigSetterOp
    /\ Len(log) = 2
    /\ qstates = States
    /\ pstates[1] = States

(* C16: under fair dispatch of the changed hooks, authentication data      *)
(* published to the plugin leads to a state of the plugin with available   *)
(* and changed both set; and a name and configuration data published to    *)
(* the principal lead to a state of the principal with available and       *)
(* changed both set, unless the name is withdrawn before the hook runs.    *)
C16_ChangedLeadsToAvailable ==
    /\ (Provides_authentication_data # None) ~>
           ({AVAILABLE, CHANGED} \subseteq qstates)
    /\ (Requires_name(1) # None /\ Requires_configuration_data(1) # None) ~>
           \/ {AVAILABLE, CHANGED} \subseteq pstates[1]
           \/ Requires_name(1) = None

\* The principal's changed hook has just made it available, with the
\* plugin's data published, and the plugin is available too.
C16_Witness ==
    /\ call.op = "requires.changed"
    /\ AVAILABLE \notin call.was
    /\ {AVAILABLE, CHANGED} \subseteq pstates[1]
    /\ Requires_name(1) # None
    /\ Provides_authentication_data # None
    /\ {AVAILABLE, CHANGED} \subseteq qstates

(* C18: when the hooks of a conversation run in order (joined, then        *)
(* changed any number of times, then departed), available being set        *)
(* implies connected is set, at the principal and at the plugin.           *)
C18_AvailableImpliesConnected ==
    /\ \A s \in Sessions : AVAILABLE \in pstates[s] => CONNECTED \in pstates[s]
    /\ AVAILABLE \in qstates => CONNECTED \in qstates

\* The principal's conversation has just departed from an available
\* state, and the plugin is still connected and available.
C18_Witness ==
    /\ call.op = "requires.departed"
    /\ AVAILABLE \in call.was
    /\ pstates[1] = {}
    /\ AVAILABLE \in qstates
    /\ CONNECTED \in qstates

====
